---- MODULE Spec2Model ----
(***************************************************************************)
(* Model of hello_wasm/main.c: the exported function say_hello and the     *)
(* process entry point main.                                               *)
(*                                                                         *)
(* C strings are sequences of one-character strings, so that a line, its   *)
(* terminator and the text inside a script are things the model computes.  *)
(* The observable state is the standard-output stream of the process, the  *)
(* list of script texts handed to emscripten_run_script, and the exit      *)
(* status main returned.  The remaining variables are control positions    *)
(* and history (how many calls the host made, what each printf call did,   *)
(* what each finished call and each finished run produced).                *)
(*                                                                         *)
(* The host is the environment: it starts the process with some argument   *)
(* vector, and once main has returned (the module is loaded and the        *)
(* runtime stays alive) it may call say_hello any number of times.         *)
(* Execution is single-threaded: a call of say_hello runs to its end       *)
(* before anything else happens.                                           *)
(***************************************************************************)
EXTENDS Naturals, Sequences, FiniteSets

VARIABLES
    args,         \* argument vector the host started this process with
    mainPc,       \* "entry" | "printed" | "exited": position in main
    exitStatus,   \* <<>> while main runs, <<s>> once main returned s
    stdout,       \* characters written to standard output by this process
    hostScripts,  \* script texts passed to emscripten_run_script, in order
    helloIp,      \* 0: no call of say_hello in progress; i: next statement
    helloMark,    \* Len(stdout) and Len(hostScripts) at entry of the call
    calls,        \* number of say_hello invocations made in this process
    written,      \* one flag per printf call of this process: did it write
    callLog,      \* per finished say_hello call: what it wrote and requested
    runLog        \* per finished run of main: its args, output and status

vars == <<args, mainPc, exitStatus, stdout, hostScripts, helloIp, helloMark,
          calls, written, callLog, runLog>>

\* ------------------------------------------------------------------ bounds

\* Number of process runs the host starts.
MaxRuns == 3

\* Number of say_hello calls the host makes within one run.
MaxCalls == 3

\* Argument vectors the host may start the process with.
ArgVectors == {<<>>, <<"a">>, <<"a", "b">>}

\* ------------------------------------------------------- string literals

\* Mutant: a call counter kept across calls changes the text of later calls.
GreetingFmtCounted ==
    IF calls > 1
    THEN <<"H", "e", "l", "l", "o", " ", "a", "g", "a", "i", "n", "\n">>
    ELSE <<"H", "e", "l", "l", "o", ",", " ", "W", "o", "r", "l", "d", " ",
           "f", "r", "o", "m", " ", "W", "e", "b", "A", "s", "s", "e", "m",
           "b", "l", "y", "!", "\n">>

\* main.c:6  "Hello, World from WebAssembly!\n"
GreetingFmt ==
    <<"H", "e", "l", "l", "o", ",", " ", "W", "o", "r", "l", "d", " ",
      "f", "r", "o", "m", " ", "W", "e", "b", "A", "s", "s", "e", "m", "b",
      "l", "y", "!", "\n">>

\* Mutant: the script logs a greeting other than the one printed.
ScriptTextOther ==
    <<"c", "o", "n", "s", "o", "l", "e", ".", "l", "o", "g", "(", "'",
      "H", "e", "l", "l", "o", ",", " ", "W", "o", "r", "l", "d", "!",
      "'", ")", ";">>

\* main.c:7  "console.log('Hello, World from WebAssembly!');"
ScriptText ==
    <<"c", "o", "n", "s", "o", "l", "e", ".", "l", "o", "g", "(", "'",
      "H", "e", "l", "l", "o", ",", " ", "W", "o", "r", "l", "d", " ",
      "f", "r", "o", "m", " ", "W", "e", "b", "A", "s", "s", "e", "m", "b",
      "l", "y", "!", "'", ")", ";">>

\* main.c:11  "Hello, World (startup)\n"
StartupFmt ==
    <<"H", "e", "l", "l", "o", ",", " ", "W", "o", "r", "l", "d", " ",
      "(", "s", "t", "a", "r", "t", "u", "p", ")", "\n">>

\* ------------------------------------------------------------ libc, host

\* printf with no arguments after the format: ordinary characters are
\* copied, the directive %% yields one %.
RECURSIVE Format(_)
Format(fmt) ==
    IF fmt = <<>> THEN <<>>
    ELSE IF Head(fmt) = "%" /\ Len(fmt) >= 2 /\ fmt[2] = "%"
         THEN <<"%">> \o Format(Tail(Tail(fmt)))
         ELSE <<Head(fmt)>> \o Format(Tail(fmt))

\* The stream after printf(fmt): the formatted text is appended when the
\* write succeeds, nothing is when the sink rejects it.
Printf(out, fmt, ok) == IF ok THEN out \o Format(fmt) ELSE out

\* The host's request list after emscripten_run_script(script).
RunScript(reqs, script) == Append(reqs, script)

\* ---------------------------------------------------------------- main

\* main.c:11  printf("Hello, World (startup)\n");
MainWrite(ok) ==
    /\ mainPc = "entry"
    /\ stdout' = Printf(stdout, StartupFmt, ok)
    /\ written' = Append(written, ok)
    /\ mainPc' = "printed"
    /\ UNCHANGED <<args, exitStatus, hostScripts, helloIp, helloMark, calls,
                   callLog, runLog>>

\* Mutant: main goes on to do say_hello's work after its own write.
MainPrintfThenGreets ==
    /\ mainPc = "entry"
    /\ stdout' = Printf(Printf(stdout, StartupFmt, TRUE), GreetingFmt, TRUE)
    /\ hostScripts' = RunScript(hostScripts, ScriptText)
    /\ written' = written \o <<TRUE, TRUE>>
    /\ mainPc' = "printed"
    /\ UNCHANGED <<args, exitStatus, helloIp, helloMark, calls, callLog,
                   runLog>>

MainPrintf == MainWrite(TRUE)

MainPrintfFails == MainWrite(FALSE)

\* Mutant: main returns its argument count.
MainReturnArgc ==
    /\ mainPc = "printed"
    /\ mainPc' = "exited"
    /\ exitStatus' = <<Len(args)>>
    /\ runLog' = Append(runLog,
          [args |-> args, out |-> stdout, status |-> Len(args)])
    /\ UNCHANGED <<args, stdout, hostScripts, helloIp, helloMark, calls,
                   written, callLog>>

\* Mutant: a return guarded by nothing, reachable before the write.
MainReturnEarly ==
    /\ mainPc \in {"entry", "printed"}
    /\ mainPc' = "exited"
    /\ exitStatus' = <<0>>
    /\ runLog' = Append(runLog, [args |-> args, out |-> stdout, status |-> 0])
    /\ UNCHANGED <<args, stdout, hostScripts, helloIp, helloMark, calls,
                   written, callLog>>

\* main.c:12  return 0;
MainReturn ==
    /\ mainPc = "printed"
    /\ mainPc' = "exited"
    /\ exitStatus' = <<0>>
    /\ runLog' = Append(runLog, [args |-> args, out |-> stdout, status |-> 0])
    /\ UNCHANGED <<args, stdout, hostScripts, helloIp, helloMark, calls,
                   written, callLog>>

\* ----------------------------------------------------------- say_hello

\* Mutant: the two statements in the other order.
SayHelloBodySwapped == <<"run_script", "printf">>

\* The statements of say_hello's body, in program order (main.c:6-7).
SayHelloBody == <<"printf", "run_script">>

\* The host calls the exported function (main.c:4-5).
SayHelloCall ==
    /\ mainPc = "exited"
    /\ helloIp = 0
    /\ calls < MaxCalls
    /\ calls' = calls + 1
    /\ helloIp' = 1
    /\ helloMark' = [out |-> Len(stdout), reqs |-> Len(hostScripts)]
    /\ UNCHANGED <<args, mainPc, exitStatus, stdout, hostScripts, written,
                   callLog, runLog>>

\* main.c:6  printf("Hello, World from WebAssembly!\n");
SayHelloWrite(ok) ==
    /\ helloIp \in 1..Len(SayHelloBody)
    /\ SayHelloBody[helloIp] = "printf"
    /\ stdout' = Printf(stdout, GreetingFmt, ok)
    /\ written' = Append(written, ok)
    /\ helloIp' = helloIp + 1
    /\ UNCHANGED <<args, mainPc, exitStatus, hostScripts, helloMark, calls,
                   callLog, runLog>>

SayHelloPrintf == SayHelloWrite(TRUE)

\* Mutant: the result of printf is checked and a failed write ends the call.
SayHelloPrintfFailsAborts ==
    /\ helloIp \in 1..Len(SayHelloBody)
    /\ SayHelloBody[helloIp] = "printf"
    /\ written' = Append(written, FALSE)
    /\ helloIp' = Len(SayHelloBody) + 1
    /\ UNCHANGED <<args, mainPc, exitStatus, stdout, hostScripts, helloMark,
                   calls, callLog, runLog>>

SayHelloPrintfFails == SayHelloWrite(FALSE)

\* Mutant: the request is issued twice.
SayHelloRunScriptTwice ==
    /\ helloIp \in 1..Len(SayHelloBody)
    /\ SayHelloBody[helloIp] = "run_script"
    /\ hostScripts' = RunScript(RunScript(hostScripts, ScriptText), ScriptText)
    /\ helloIp' = helloIp + 1
    /\ UNCHANGED <<args, mainPc, exitStatus, stdout, helloMark, calls,
                   written, callLog, runLog>>

\* main.c:7  emscripten_run_script("console.log('...');");
SayHelloRunScript ==
    /\ helloIp \in 1..Len(SayHelloBody)
    /\ SayHelloBody[helloIp] = "run_script"
    /\ hostScripts' = RunScript(hostScripts, ScriptText)
    /\ helloIp' = helloIp + 1
    /\ UNCHANGED <<args, mainPc, exitStatus, stdout, helloMark, calls,
                   written, callLog, runLog>>

\* main.c:8  the closing brace: control returns to the host, no value.
SayHelloReturn ==
    /\ helloIp = Len(SayHelloBody) + 1
    /\ helloIp' = 0
    /\ callLog' = Append(callLog,
          [out  |-> SubSeq(stdout, helloMark.out + 1, Len(stdout)),
           reqs |-> SubSeq(hostScripts, helloMark.reqs + 1, Len(hostScripts))])
    /\ UNCHANGED <<args, mainPc, exitStatus, stdout, hostScripts, helloMark,
                   calls, written, runLog>>

\* ------------------------------------------------------------ the host

\* The host starts the process again, with any argument vector: a fresh
\* process image, a fresh standard output, no say_hello call made yet.
Restart ==
    /\ mainPc = "exited"
    /\ helloIp = 0
    /\ Len(runLog) < MaxRuns
    /\ \E a \in ArgVectors : args' = a
    /\ mainPc' = "entry"
    /\ exitStatus' = <<>>
    /\ stdout' = <<>>
    /\ hostScripts' = <<>>
    /\ helloMark' = [out |-> 0, reqs |-> 0]
    /\ calls' = 0
    /\ written' = <<>>
    /\ callLog' = <<>>
    /\ UNCHANGED <<helloIp, runLog>>

Init ==
    /\ args \in ArgVectors
    /\ mainPc = "entry"
    /\ exitStatus = <<>>
    /\ stdout = <<>>
    /\ hostScripts = <<>>
    /\ helloIp = 0
    /\ helloMark = [out |-> 0, reqs |-> 0]
    /\ calls = 0
    /\ written = <<>>
    /\ callLog = <<>>
    /\ runLog = <<>>

\* The platform's output calls succeed.
Next ==
    \/ MainPrintf
    \/ MainReturn
    \/ SayHelloCall
    \/ SayHelloPrintf
    \/ SayHelloRunScript
    \/ SayHelloReturn
    \/ Restart

Spec == Init /\ [][Next]_vars

\* main has no loop, branch or blocking wait, and say_hello has none
\* either: a started body runs to its end.
LiveSpec ==
    /\ Init /\ [][Next]_vars
    /\ WF_vars(MainPrintf)
    /\ WF_vars(MainReturn)
    /\ WF_vars(SayHelloPrintf)
    /\ WF_vars(SayHelloRunScript)
    /\ WF_vars(SayHelloReturn)

\* The standard-output sink may reject any write.
NextFail ==
    \/ MainPrintf
    \/ MainPrintfFails
    \/ MainReturn
    \/ SayHelloCall
    \/ SayHelloPrintf
    \/ SayHelloPrintfFails
    \/ SayHelloRunScript
    \/ SayHelloReturn
    \/ Restart

FailSpec == Init /\ [][NextFail]_vars

\* ------------------------------------------------- reading the outputs

\* A character stream cut at its line terminators: the complete lines,
\* without their terminators, and the unterminated text after the last.
LineEnds(s) == {i \in 1..Len(s) : s[i] = "\n"}

\* The position of the k-th line terminator of s; 0 for k = 0.
LineEnd(s, k) ==
    IF k = 0 THEN 0
    ELSE CHOOSE e \in LineEnds(s) :
            Cardinality({x \in LineEnds(s) : x <= e}) = k

Scan(s) ==
    LET n == Cardinality(LineEnds(s))
    IN  [lines |-> [k \in 1..n |->
                      SubSeq(s, LineEnd(s, k - 1) + 1, LineEnd(s, k) - 1)],
         rest  |-> SubSeq(s, LineEnd(s, n) + 1, Len(s))]

LinesOf(s) == Scan(s).lines

\* The stream is exactly the one line `line` and its terminator.
IsOneLine(s, line) == Scan(s) = [lines |-> <<line>>, rest |-> <<>>]

\* How many of the lines equal `line`.
CountLines(lines, line) ==
    Cardinality({i \in 1..Len(lines) : lines[i] = line})

StartsWith(s, p) == Len(s) >= Len(p) /\ SubSeq(s, 1, Len(p)) = p

Drop(s, n) == SubSeq(s, n + 1, Len(s))

LogOpen == <<"c", "o", "n", "s", "o", "l", "e", ".", "l", "o", "g", "(", "'">>

LogClose == <<"'", ")", ";">>

\* The characters of s up to, not including, its first single quote.
RECURSIVE UpToQuote(_)
UpToQuote(s) ==
    IF s = <<>> \/ Head(s) = "'" THEN <<>>
    ELSE <<Head(s)>> \o UpToQuote(Tail(s))

\* What a host console shows after evaluating a script made of statements
\* console.log('<text>'); : one entry per statement, the text between the
\* quotes.  Any other script text is reported as the entry <<"?">>.
RECURSIVE LogEntries(_)
LogEntries(script) ==
    IF script = <<>> THEN <<>>
    ELSE IF StartsWith(script, LogOpen)
         THEN LET body == Drop(script, Len(LogOpen))
                  text == UpToQuote(body)
                  tail == Drop(body, Len(text))
              IN  IF StartsWith(tail, LogClose)
                  THEN <<text>> \o LogEntries(Drop(tail, Len(LogClose)))
                  ELSE <<<<"?">>>>
         ELSE <<<<"?">>>>

\* The texts the specification names.
HelloText ==
    <<"H", "e", "l", "l", "o", ",", " ", "W", "o", "r", "l", "d", " ",
      "f", "r", "o", "m", " ", "W", "e", "b", "A", "s", "s", "e", "m", "b",
      "l", "y", "!">>

StartupText ==
    <<"H", "e", "l", "l", "o", ",", " ", "W", "o", "r", "l", "d", " ",
      "(", "s", "t", "a", "r", "t", "u", "p", ")">>

HelloScript == LogOpen \o HelloText \o LogClose

RECURSIVE Concat(_)
Concat(ss) == IF ss = <<>> THEN <<>> ELSE Head(ss) \o Concat(Tail(ss))

Idle == mainPc = "exited" /\ helloIp = 0

\* What main had put on standard output when it returned, in this run.
MainOut == runLog[Len(runLog)].out

GreetingLines == CountLines(LinesOf(stdout), HelloText)

StartupLines == CountLines(LinesOf(stdout), StartupText)

\* ---------------------------------------------------------------- claims

\* C1: every invocation of say_hello appends exactly one line to standard
\* output, `Hello, World from WebAssembly!` and a line terminator, and
\* issues exactly one script-evaluation request, whose text is exactly
\* console.log('Hello, World from WebAssembly!'); -- so after any number of
\* calls there are as many greeting lines and as many requests as calls.
C1_OneLineOneRequestPerCall ==
    /\ \A k \in 1..Len(callLog) :
          /\ IsOneLine(callLog[k].out, HelloText)
          /\ callLog[k].reqs = <<HelloScript>>
    /\ Idle => /\ Len(callLog) = calls
               /\ GreetingLines = calls
               /\ Len(LinesOf(stdout)) = 1 + calls
               /\ Len(hostScripts) = calls

C1_Witness == Idle /\ calls >= 2 /\ Len(callLog) = calls

\* C2: every run of main appends exactly one line, `Hello, World (startup)`,
\* and then ends with exit status 0, whatever the arguments and whatever
\* the earlier runs did; a started run reaches that exit.
C2_StartupLineThenExitZero ==
    /\ [](\A i \in 1..Len(runLog) :
             /\ IsOneLine(runLog[i].out, StartupText)
             /\ runLog[i].status = 0)
    /\ [](mainPc = "exited" => exitStatus = <<0>>)
    /\ (mainPc = "entry") ~> (mainPc = "exited" /\ exitStatus = <<0>>)

C2_Witness ==
    /\ Len(runLog) >= 2
    /\ runLog[1].args # runLog[2].args
    /\ runLog[2].args # <<>>
    /\ mainPc = "exited"

\* C3: n calls of say_hello in sequence give n identical lines and n
\* identical requests: what the k-th call produces equals what the first
\* produced, and the outputs after n calls are n copies of the first
\* call's outputs after main's.
C3_CallsIdentical ==
    /\ \A k \in 1..Len(callLog) : callLog[k] = callLog[1]
    /\ (Idle /\ calls >= 1) =>
          /\ Len(callLog) = calls
          /\ stdout = MainOut \o Concat([k \in 1..calls |-> callLog[1].out])
          /\ hostScripts = Concat([k \in 1..calls |-> callLog[1].reqs])

C3_Witness == Idle /\ Len(callLog) >= 3 /\ callLog[3].out # <<>>

\* C4: while the host has not invoked say_hello, a process run produces
\* the startup line and nothing else: main never enters say_hello, there
\* is no greeting line on standard output and no script-evaluation
\* request, and at exit standard output is exactly the startup line.
C4_StartupOnlyWithoutHost ==
    /\ mainPc # "exited" => (calls = 0 /\ helloIp = 0)
    /\ calls = 0 => (hostScripts = <<>> /\ GreetingLines = 0)
    /\ (calls = 0 /\ mainPc = "exited") => IsOneLine(stdout, StartupText)

C4_Witness == mainPc = "exited" /\ calls = 0 /\ hostScripts = <<>>

\* C5: the startup line is written exactly once per process run and
\* unconditionally: never more than once, exactly once in every state
\* after main's exit, no step reaches the exit without it, and every run
\* reaches the exit.
C5_StartupOnceBeforeExit ==
    /\ [](StartupLines <= 1)
    /\ [](mainPc = "exited" => (StartupLines = 1 /\ written[1]))
    /\ [][(mainPc # "exited" /\ mainPc' = "exited") =>
             (StartupLines = 1 /\ mainPc = "printed")]_vars
    /\ (mainPc # "exited") ~> (mainPc = "exited")

C5_Witness == mainPc = "exited" /\ StartupLines = 1 /\ Len(runLog) = MaxRuns

\* C6: for one say_hello call the two sinks carry the same greeting: the
\* call makes one request, the script logs one entry, the call writes one
\* line, and the logged text equals the line without its terminator,
\* `Hello, World from WebAssembly!`.
C6_SameGreetingInBothSinks ==
    \A k \in 1..Len(callLog) :
        LET c == callLog[k]
            shown == Scan(c.out)
        IN  /\ Len(c.reqs) = 1
            /\ Len(LogEntries(c.reqs[1])) = 1
            /\ Len(shown.lines) = 1 /\ shown.rest = <<>>
            /\ LogEntries(c.reqs[1])[1] = shown.lines[1]
            /\ shown.lines[1] = HelloText

C6_Witness ==
    /\ Len(callLog) >= 1
    /\ LogEntries(callLog[1].reqs[1]) = <<HelloText>>

\* C7: within a say_hello call the write to standard output comes before
\* the request: the number of requests never exceeds the number of
\* greeting lines, the two differ by at most 1, and they are equal
\* whenever no call is in progress.
C7_WriteBeforeRequest ==
    /\ Len(hostScripts) <= GreetingLines
    /\ GreetingLines <= Len(hostScripts) + 1
    /\ helloIp = 0 => GreetingLines = Len(hostScripts)

C7_Witness ==
    /\ helloIp # 0
    /\ GreetingLines = Len(hostScripts) + 1
    /\ Len(hostScripts) >= 1

\* C8: no failure of an output call is checked, retried or reported: a
\* say_hello call whose write failed still issues its one request, no
\* printf is called a second time, and main returns 0 also when its write
\* failed.
C8_FailuresIgnored ==
    /\ \A k \in 1..Len(callLog) : callLog[k].reqs = <<HelloScript>>
    /\ Len(written) <= 1 + calls
    /\ Idle => (Len(written) = 1 + calls /\ Len(hostScripts) = calls)
    /\ mainPc = "exited" => exitStatus = <<0>>

C8_Witness ==
    /\ Idle
    /\ ~written[1]
    /\ stdout = <<>>
    /\ \E k \in 1..Len(callLog) : callLog[k].out = <<>>

====
